---- MODULE Spec2Model ----
(***************************************************************************)
(* Model of the Synology iSCSI LUN recovery tool (synology_recovery):      *)
(* cli.main drives SynologyAPI, ISCSIManager and SnapshotManager through   *)
(* login, discovery, the connection safety gate, the snapshot catalog,     *)
(* selection, confirmation and the per-item revert loop.                   *)
(*                                                                         *)
(* Python dicts are functions over the set of keys that are present, so    *)
(* dict.get(key, default) and {**d} merges are modelled by what they do.   *)
(***************************************************************************)
EXTENDS Integers, Sequences, FiniteSets, TLC

\* ---------------------------------------------------------------- bounds
MaxTargets == 2    \* targets in an answer of list targets
MaxSessions == 1   \* sessions a target holds
MaxLuns == 3       \* LUNs in an answer of list LUNs
MaxSnaps == 1      \* snapshots of a LUN during a run
MaxTime == 1       \* largest raw timestamp
MaxList == 2       \* snapshots in the answer get_snapshots_for_lun sorts
MaxCalls == 3      \* requests a client of SynologyAPI sends
MaxLong == 8       \* snapshots in a long answer select_snapshot is given

\* ------------------------------------------------------- python helpers
\* None; every scalar the model draws is a natural number or a string
None == -1

\* dict.get(k, default)
Get(d, k, default) == IF k \in DOMAIN d THEN d[k] ELSE default

\* {**base, **conn}: keys of conn win
Merge(base, conn) ==
    [k \in (DOMAIN base) \cup (DOMAIN conn) |->
        IF k \in DOMAIN conn THEN conn[k] ELSE base[k]]

\* truthiness of None and of an integer
Truthy(v) == v # None /\ v # 0

SeqSum(s) ==
    LET RECURSIVE sum(_)
        sum(i) == IF i = 0 THEN 0 ELSE s[i] + sum(i - 1)
    IN sum(Len(s))

VARIABLES
    argList,          \* args.list
    argDryRun,        \* args.dry_run
    pc,               \* position of main
    pending,          \* what is propagating out of the with block
    exitCode,         \* process exit status, None while running
    sid,              \* SynologyAPI.sid
    loginCalls,       \* login requests sent
    loginOk,          \* login returned normally in this run
    logoutCalls,      \* logout requests sent
    applTargets,      \* the appliance's targets with their sessions
    has_connections,  \* main: result of check_active_connections
    connections,      \* main: result of check_active_connections
    failedCall,       \* discovery call that raised, "" if none did
    luns,             \* main: luns (result of get_luns_with_uuids)
    lunIdx,           \* get_all_lun_snapshots: loop position
    fetchLog,         \* outcome of get_snapshots_for_lun per LUN passed
    all_snapshots,    \* the catalog, a dict in insertion order
    selIdx,           \* selection loop position
    reversion_plan,   \* main: reversion_plan
    confirmed,        \* the operator answered yes to Confirm.ask
    execIdx,          \* revert loop position
    revertCalls,      \* revert_lun_snapshot requests issued
    interrupted,      \* a KeyboardInterrupt was raised
    logoutRaised,     \* the logout request raised
    api_snapshots,    \* get_snapshots_for_lun: the API's answer
    snapshots,        \* get_snapshots_for_lun: the list returned
    config,           \* the configuration file main is started with
    requests,         \* the requests sent to the appliance, in order
    entered,          \* select_snapshot: what the operator enters
    returned,         \* select_snapshot: what it returns
    lastCall          \* SynologyAPI: the last method called and how it ended

vars == <<argList, argDryRun, pc, pending, exitCode, sid, loginCalls,
          loginOk, logoutCalls, applTargets, has_connections, connections,
          failedCall, luns, lunIdx, fetchLog, all_snapshots, selIdx,
          reversion_plan, confirmed, execIdx, revertCalls, interrupted,
          logoutRaised, api_snapshots, snapshots, config, requests, entered,
          returned, lastCall>>

\* ================================================================ iscsi.py

\* check_active_connections: flatten every target's sessions, each tagged
\* with the owning target's id and name; the second component is the list.
TagSessions(target) ==
    LET connected_sessions == Get(target, "connected_sessions", <<>>)
    IN  IF connected_sessions # <<>>
        THEN [i \in 1..Len(connected_sessions) |->
                 Merge([target_id |-> Get(target, "target_id", None),
                        target_name |-> Get(target, "name", "Unknown")],
                       connected_sessions[i])]
        ELSE <<>>

\* all_connections = [...] instead of all_connections.extend([...])
RECURSIVE AllConnectionsAssign(_)
AllConnectionsAssign(targets) ==
    IF targets = <<>> THEN <<>>
    ELSE IF TagSessions(targets[Len(targets)]) # <<>>
         THEN TagSessions(targets[Len(targets)])
         ELSE AllConnectionsAssign(SubSeq(targets, 1, Len(targets) - 1))

RECURSIVE AllConnections(_)
AllConnections(targets) ==
    IF targets = <<>> THEN <<>>
    ELSE AllConnections(SubSeq(targets, 1, Len(targets) - 1))
             \o TagSessions(targets[Len(targets)])

CheckActiveConnections(targets) ==
    LET all_connections == AllConnections(targets)
    IN  <<Len(all_connections) > 0, all_connections>>

\* get_luns_with_uuids: keep the LUNs that carry a uuid, default the name
RECURSIVE LunsWithUuids(_)
LunsWithUuids(raw) ==
    IF raw = <<>> THEN <<>>
    ELSE LET lun == raw[Len(raw)]
             rest == LunsWithUuids(SubSeq(raw, 1, Len(raw) - 1))
         IN  IF Truthy(Get(lun, "uuid", None))
             THEN Append(rest, [uuid |-> lun["uuid"],
                                name |-> Get(lun, "name", "Unknown")])
             ELSE rest

\* ============================================================= snapshot.py

\* an or chain that stops at taken_time
Or3NoCreateTime(a, b, c) == IF Truthy(a) THEN a ELSE b

\* a or b or c
Or3(a, b, c) == IF Truthy(a) THEN a ELSE IF Truthy(b) THEN b ELSE c

\* the loop body of get_snapshots_for_lun: derive sort_time (and datetime);
\* the raw timestamps are integers, which int() leaves as they are
TimeCreated(snapshot) ==
    Or3(Get(snapshot, "time_create", None),
        Get(snapshot, "taken_time", None),
        Get(snapshot, "create_time", None))

Annotate(snapshot) ==
    LET time_created == TimeCreated(snapshot)
    IN  IF Truthy(time_created)
        THEN Merge(snapshot, [datetime |-> <<"datetime", time_created>>,
                              sort_time |-> time_created])
        ELSE Merge(snapshot, [sort_time |-> 0])

SortKey(s) == Get(s, "sort_time", 0)

\* a descending sort that is not stable: x goes before its equals
RECURSIVE InsertDescUnstable(_, _)
InsertDescUnstable(sorted, x) ==
    IF sorted = <<>> THEN <<x>>
    ELSE IF SortKey(sorted[Len(sorted)]) > SortKey(x)
         THEN Append(sorted, x)
         ELSE Append(InsertDescUnstable(SubSeq(sorted, 1, Len(sorted) - 1), x),
                     sorted[Len(sorted)])

\* where list.sort(reverse=True) puts x among the already sorted prefix:
\* after every element whose key is not smaller (the sort is stable)
RECURSIVE InsertDesc(_, _)
InsertDesc(sorted, x) ==
    IF sorted = <<>> THEN <<x>>
    ELSE IF SortKey(sorted[Len(sorted)]) >= SortKey(x)
         THEN Append(sorted, x)
         ELSE Append(InsertDesc(SubSeq(sorted, 1, Len(sorted) - 1), x),
                     sorted[Len(sorted)])

RECURSIVE SortDesc(_)
SortDesc(s) ==
    IF s = <<>> THEN <<>>
    ELSE InsertDesc(SortDesc(SubSeq(s, 1, Len(s) - 1)), s[Len(s)])

\* get_snapshots_for_lun applied to the API's answer
GetSnapshotsForLun(api_answer) ==
    SortDesc([i \in 1..Len(api_answer) |-> Annotate(api_answer[i])])

\* an assignment that, for a key already present, replaces the snapshots
\* and leaves the uuid stored before
DictSetKeepUuid(d, key, value) ==
    IF \E i \in 1..Len(d) : d[i].key = key
    THEN [i \in 1..Len(d) |->
             IF d[i].key = key
             THEN [key |-> key,
                   value |-> [uuid |-> d[i].value.uuid,
                              snapshots |-> value.snapshots]]
             ELSE d[i]]
    ELSE Append(d, [key |-> key, value |-> value])

\* all_snapshots[lun_name] = {...}: a dict keeps the position of a key that
\* is already present and replaces its value
DictSet(d, key, value) ==
    IF \E i \in 1..Len(d) : d[i].key = key
    THEN [i \in 1..Len(d) |->
             IF d[i].key = key THEN [key |-> key, value |-> value] ELSE d[i]]
    ELSE Append(d, [key |-> key, value |-> value])

\* one iteration of get_all_lun_snapshots; answer.ok is FALSE when
\* get_snapshots_for_lun raised
CatalogStep(catalog, lun, answer) ==
    IF ~answer.ok THEN catalog
    ELSE LET snaps == GetSnapshotsForLun(answer.snapshots)
         IN  IF snaps # <<>>
             THEN DictSet(catalog, lun.name,
                          [uuid |-> lun.uuid, snapshots |-> snaps])
             ELSE catalog

\* ================================================================== cli.py

\* select_snapshot after the prompt: "none" for None, "raise" for the
\* IndexError of snapshots[choice - 1], else the snapshot
SelectSnapshot(snaps, choice) ==
    IF snaps = <<>> THEN [kind |-> "none"]
    ELSE IF choice = 0 \/ choice > Len(snaps) THEN [kind |-> "none"]
    ELSE IF choice >= 1 THEN [kind |-> "snap", snapshot |-> snaps[choice]]
    ELSE IF choice - 1 + Len(snaps) >= 0
         THEN [kind |-> "snap",
               snapshot |-> snaps[choice + Len(snaps)]]
         ELSE [kind |-> "raise"]

\* main without the gate
SafetyGateOff(has, list, dry_run) == FALSE

\* display_snapshots: the table shows the first ShowMax snapshots
ShowMax == 7

\* snapshot.get("snapshot_uuid") or snapshot.get("uuid") or
\* snapshot.get("snapshot_id") or "N/A"
SnapshotId(snapshot) ==
    LET id == Or3(Get(snapshot, "snapshot_uuid", None),
                  Get(snapshot, "uuid", None),
                  Get(snapshot, "snapshot_id", None))
    IN  IF Truthy(id) THEN <<"id", id>> ELSE <<"N/A">>

\* the rows display_snapshots adds to its table, one per snapshot of
\* snapshots[:7]: the index shown, the id shown and whether a date is shown
DisplaySnapshots(snaps) ==
    LET snapshots_to_show ==
            SubSeq(snaps, 1, IF Len(snaps) < ShowMax THEN Len(snaps)
                             ELSE ShowMax)
    IN  [i \in 1..Len(snapshots_to_show) |->
            [idx |-> i,
             snapshot_id |-> SnapshotId(snapshots_to_show[i]),
             dated |-> \/ "datetime" \in DOMAIN snapshots_to_show[i]
                       \/ Truthy(TimeCreated(snapshots_to_show[i]))]]

\* the gate with the dry-run test inverted
SafetyGateDryRunOnly(has, list, dry_run) == has /\ ~list /\ dry_run

\* the safety gate of main
SafetyGate(has, list, dry_run) == has /\ ~list /\ ~dry_run

\* snapshot.get("snapshot_uuid", snapshot.get("uuid"))
SnapshotUuid(snapshot) ==
    Get(snapshot, "snapshot_uuid", Get(snapshot, "uuid", None))

\* handlers that let the safety-check exit end with status 0
ExitOfGateZero(p) == IF p \in {"return", "exit0", "exit1"} THEN 0 ELSE 1

\* what a sys.exit / exception / normal end of the with block leaves as the
\* process exit status once it has passed the handlers at the end of main
ExitOf(p) ==
    CASE p = "return" -> 0
      [] p = "exit0" -> 0
      [] p = "exit1" -> 1
      [] p = "exception" -> 1
      [] p = "interrupt" -> 1

\* _api_request without the test of sid
ApiRequestUnguarded(s, log, method) == Append(log, method)

\* SynologyAPI._api_request: the request is sent only when a session is held
ApiRequest(s, log, method) ==
    IF ~Truthy(s) THEN log ELSE Append(log, method)

\* how a call through _api_request may end for its caller: TRUE for a
\* normal return; without a session it raises
Answers(s) == IF ~Truthy(s) THEN {FALSE} ELSE BOOLEAN

\* logout without the finally clause
SidAfterLogoutNoFinally(s, outcome) == IF outcome = "ok" THEN None ELSE s

\* SynologyAPI.logout: the finally clause clears sid whatever the request did
SidAfterLogout(s, outcome) == None

\* main without the dry-run branch
AfterPlanNoDryRun(plan, dry_run) == IF plan = <<>> THEN "exit0" ELSE "confirm"

\* where main goes once the plan is built
AfterPlan(plan, dry_run) ==
    IF plan = <<>> THEN "exit0"
    ELSE IF dry_run THEN "return"
    ELSE "confirm"

\* main going on to the revert loop whatever the operator answers
AfterConfirmAlways(answer) == "execute"

\* where main goes with the answer of Confirm.ask
AfterConfirm(answer) == IF answer THEN "execute" ELSE "exit0"

\* a revert loop that tries a failed item again
ExecStepRetry(ok, idx) == IF ok THEN idx + 1 ELSE idx

\* the revert loop: the for statement moves on to the next plan item whether
\* the call returned or raised
ExecStep(ok, idx) == idx + 1

\* a revert loop that stops at the first failed item
AfterRevertBreak(ok, idx, n) == IF idx = n \/ ~ok THEN "return" ELSE "next"

\* the revert loop: a failed item is reported and the loop goes on
AfterRevert(ok, idx, n) == IF idx = n THEN "return" ELSE "next"

\* ================================================================== config.py
\* the configuration file: absent, or a [nas] table in which each of host,
\* username and password is absent, empty or set
Configs ==
    {[exists |-> FALSE, nas |-> <<>>]} \cup
    {[exists |-> TRUE, nas |-> t] :
        t \in UNION {[D -> {"", "set"}] :
                        D \in SUBSET {"host", "username", "password"}}}

\* SynologyConfig.from_file, once the file is known to exist
FromFile(nas_config) ==
    [host |-> Get(nas_config, "host", ""),
     username |-> Get(nas_config, "username", ""),
     password |-> Get(nas_config, "password", "")]

\* a validate that does not look at the password
ConfigErrorNoPassword(cfg) ==
    ~cfg.exists \/ FromFile(cfg.nas).host = ""
                \/ FromFile(cfg.nas).username = ""

\* from_file raises FileNotFoundError, validate raises ValueError
ConfigError(cfg) ==
    ~cfg.exists \/ FromFile(cfg.nas).host = ""
                \/ FromFile(cfg.nas).username = ""
                \/ FromFile(cfg.nas).password = ""

\* ============================================================ the appliance
Session(i) == [initiator |-> i, ip |-> i]

Target(i, sessions) ==
    [target_id |-> i, name |-> "target", connected_sessions |-> sessions]

\* the targets of the appliance a run starts with: none, or one target
\* holding its first c sessions
Appliances ==
    {<<>>} \cup {<<Target(1, [j \in 1..c |-> Session(j)])>> : c \in 0..MaxSessions}

ActiveSessions(targets) == Len(AllConnections(targets))

\* what list LUNs may answer: the i-th LUN has uuid i, or none; a name or none
RawLun(i, shape) ==
    CASE shape = "both" -> [uuid |-> i, name |-> "a"]
      [] shape = "uuid" -> [uuid |-> i]
      [] shape = "name" -> [name |-> "a"]

RawLunLists ==
    UNION {{[i \in 1..n |-> RawLun(i, f[i])] :
                f \in [1..n -> {"both", "uuid", "name"}]} : n \in 0..MaxLuns}

\* what list_snapshot may answer for a LUN: an error, no snapshot, or its
\* MaxSnaps snapshots, oldest first
SnapAnswers(uuid) ==
    {[ok |-> FALSE, snapshots |-> <<>>]} \cup
    {[ok |-> TRUE,
      snapshots |-> [k \in 1..n |->
                        [snapshot_uuid |-> 10 * uuid + k, time_create |-> k]]] :
        n \in {0, MaxSnaps}}

Choices == (0 - MaxSnaps - 1)..(MaxSnaps + 1)

\* ==================================================================== main
\* nothing has run yet
Fresh ==
    /\ pending = ""
    /\ exitCode = None
    /\ sid = None
    /\ loginCalls = 0
    /\ loginOk = FALSE
    /\ logoutCalls = 0
    /\ has_connections = FALSE
    /\ connections = <<>>
    /\ failedCall = ""
    /\ luns = <<>>
    /\ lunIdx = 0
    /\ fetchLog = <<>>
    /\ all_snapshots = <<>>
    /\ selIdx = 0
    /\ reversion_plan = <<>>
    /\ confirmed = FALSE
    /\ execIdx = 0
    /\ revertCalls = <<>>
    /\ interrupted = FALSE
    /\ logoutRaised = FALSE
    /\ snapshots = <<>>
    /\ requests = <<>>
    /\ returned = [kind |-> "none"]
    /\ lastCall = [method |-> "", held |-> FALSE, sent |-> FALSE,
                   result |-> ""]

Init ==
    /\ argList \in BOOLEAN
    /\ argDryRun \in BOOLEAN
    /\ applTargets \in Appliances
    /\ config \in Configs
    /\ pc = "config"
    /\ api_snapshots = <<>>
    /\ entered = 0
    /\ Fresh

apiVars == <<sid, loginCalls, loginOk, logoutCalls>>
checkVars == <<has_connections, connections>>
catalogVars == <<luns, lunIdx, fetchLog, all_snapshots>>
planVars == <<selIdx, reversion_plan, confirmed>>
execVars == <<execIdx, revertCalls>>
fnVars == <<api_snapshots, snapshots, entered, returned, lastCall>>
envVars == <<argList, argDryRun, applTargets, config>>

\* leave the with block with p propagating
Leave(p) == pc' = "exit_with" /\ pending' = p

\* main, lines 169-175
LoadConfig ==
    /\ pc = "config"
    /\ IF ConfigError(config)
       THEN pc' = "done" /\ exitCode' = 1
       ELSE pc' = "login" /\ exitCode' = exitCode
    /\ UNCHANGED <<pending, apiVars, checkVars, failedCall, catalogVars,
                   planVars, execVars, interrupted, logoutRaised, fnVars,
                   envVars, requests>>

\* api.login
Login ==
    /\ pc = "login"
    /\ loginCalls' = loginCalls + 1
    /\ requests' = Append(requests, "login")
    /\ \E ok \in BOOLEAN :
          IF ok
          THEN /\ sid' = 1
               /\ loginOk' = TRUE
               /\ pc' = "targets"
               /\ pending' = pending
          ELSE Leave("exception") /\ UNCHANGED <<sid, loginOk>>
    /\ UNCHANGED <<exitCode, logoutCalls, checkVars, failedCall, catalogVars,
                   planVars, execVars, interrupted, logoutRaised, fnVars,
                   envVars>>

\* a discovery call whose failure is swallowed
DiscoverFailOpen(at, next, method) ==
    /\ pc = at
    /\ pc' = next
    /\ requests' = ApiRequest(sid, requests, method)
    /\ \E ok \in Answers(sid) : failedCall' = IF ok THEN failedCall ELSE at
    /\ UNCHANGED <<pending, exitCode, apiVars, checkVars, catalogVars,
                   planVars, execVars, interrupted, logoutRaised, fnVars,
                   envVars>>

\* a discovery call whose result is only displayed
Discover(at, next, method) ==
    /\ pc = at
    /\ requests' = ApiRequest(sid, requests, method)
    /\ \E ok \in Answers(sid) :
          IF ok
          THEN pc' = next /\ pending' = pending /\ failedCall' = failedCall
          ELSE Leave("exception") /\ failedCall' = at
    /\ UNCHANGED <<exitCode, apiVars, checkVars, catalogVars, planVars,
                   execVars, interrupted, logoutRaised, fnVars, envVars>>

\* iscsi_mgr.get_all_targets()
GetAllTargets == Discover("targets", "luns", "get_iscsi_targets")

\* iscsi_mgr.get_all_luns()
GetAllLuns == Discover("luns", "check", "get_iscsi_luns")

\* iscsi_mgr.check_active_connections() and the safety gate
CheckConnections ==
    /\ pc = "check"
    /\ requests' = ApiRequest(sid, requests, "get_iscsi_targets")
    /\ \E ok \in Answers(sid) :
          IF ok
          THEN LET r == CheckActiveConnections(applTargets)
               IN  /\ has_connections' = r[1]
                   /\ connections' = r[2]
                   /\ failedCall' = failedCall
                   /\ IF SafetyGate(r[1], argList, argDryRun)
                      THEN Leave("exit1")
                      ELSE pc' = "luns_uuids" /\ pending' = pending
          ELSE /\ Leave("exception")
               /\ failedCall' = "check"
               /\ UNCHANGED checkVars
    /\ UNCHANGED <<exitCode, apiVars, catalogVars, planVars, execVars,
                   interrupted, logoutRaised, fnVars, envVars>>

\* iscsi_mgr.get_luns_with_uuids() and the "no LUNs" exit
GetLunsWithUuids ==
    /\ pc = "luns_uuids"
    /\ requests' = ApiRequest(sid, requests, "get_iscsi_luns")
    /\ \/ /\ Leave("exception")
          /\ failedCall' = "luns_uuids"
          /\ UNCHANGED <<luns, lunIdx>>
       \/ \E raw \in RawLunLists :
             /\ Truthy(sid)
             /\ luns' = LunsWithUuids(raw)
             /\ failedCall' = failedCall
             /\ IF luns' = <<>>
                THEN Leave("exit0") /\ lunIdx' = lunIdx
                ELSE pc' = "catalog" /\ pending' = pending /\ lunIdx' = 1
    /\ UNCHANGED <<exitCode, apiVars, checkVars, fetchLog, all_snapshots,
                   planVars, execVars, interrupted, logoutRaised, fnVars,
                   envVars>>

FetchOutcome(answer) ==
    IF ~answer.ok THEN "error"
    ELSE IF answer.snapshots = <<>> THEN "empty" ELSE "ok"

\* what get_snapshots_for_lun did for a LUN: how it ended and the snapshots
\* it returned
FetchRecord(lun, answer) ==
    [uuid |-> lun.uuid,
     outcome |-> FetchOutcome(answer),
     snapshot_uuids |->
        {SnapshotUuid(answer.snapshots[k]) : k \in 1..Len(answer.snapshots)}]

\* one iteration of get_all_lun_snapshots; after the last one the checks of
\* main that follow it (empty catalog, list mode)
FetchSnapshots ==
    /\ pc = "catalog"
    /\ requests' = ApiRequest(sid, requests, "get_lun_snapshots")
    /\ \E answer \in SnapAnswers(luns[lunIdx].uuid) :
          /\ Truthy(sid) \/ ~answer.ok
          /\ all_snapshots' = CatalogStep(all_snapshots, luns[lunIdx], answer)
          /\ fetchLog' = Append(fetchLog, FetchRecord(luns[lunIdx], answer))
    /\ IF lunIdx < Len(luns)
       THEN /\ lunIdx' = lunIdx + 1
            /\ UNCHANGED <<pc, pending, selIdx>>
       ELSE /\ lunIdx' = lunIdx
            /\ IF all_snapshots' = <<>> \/ argList
               THEN Leave("exit0") /\ selIdx' = selIdx
               ELSE pc' = "select" /\ pending' = pending /\ selIdx' = 1
    /\ UNCHANGED <<exitCode, apiVars, checkVars, failedCall, luns,
                   reversion_plan, confirmed, execVars, interrupted,
                   logoutRaised, fnVars, envVars>>

PlanItem(entry, snapshot) ==
    [lun_name |-> entry.key, lun_uuid |-> entry.value.uuid,
     snapshot |-> snapshot]

\* one iteration of the selection loop; after the last one the checks of
\* main that follow it (empty plan, dry run)
Select ==
    /\ pc = "select"
    /\ \E choice \in Choices :
          LET entry == all_snapshots[selIdx]
              selected == SelectSnapshot(entry.value.snapshots, choice)
              plan == IF selected.kind = "snap"
                      THEN Append(reversion_plan,
                                  PlanItem(entry, selected.snapshot))
                      ELSE reversion_plan
          IN  IF selected.kind = "raise"
              THEN Leave("exception") /\ UNCHANGED <<selIdx, reversion_plan>>
              ELSE /\ reversion_plan' = plan
                   /\ IF selIdx < Len(all_snapshots)
                      THEN selIdx' = selIdx + 1 /\ UNCHANGED <<pc, pending>>
                      ELSE /\ selIdx' = selIdx
                           /\ IF AfterPlan(plan, argDryRun) = "confirm"
                              THEN pc' = "confirm" /\ pending' = pending
                              ELSE Leave(AfterPlan(plan, argDryRun))
    /\ UNCHANGED <<exitCode, apiVars, checkVars, failedCall, catalogVars,
                   confirmed, execVars, interrupted, logoutRaised, fnVars,
                   envVars, requests>>

\* Confirm.ask
Confirm ==
    /\ pc = "confirm"
    /\ \E answer \in BOOLEAN :
          /\ confirmed' = answer
          /\ IF AfterConfirm(answer) = "execute"
             THEN pc' = "execute" /\ execIdx' = 1 /\ pending' = pending
             ELSE Leave(AfterConfirm(answer)) /\ execIdx' = execIdx
    /\ UNCHANGED <<exitCode, apiVars, checkVars, failedCall, catalogVars,
                   selIdx, reversion_plan, revertCalls, interrupted,
                   logoutRaised, fnVars, envVars, requests>>

\* one iteration of the revert loop
Revert ==
    /\ pc = "execute"
    /\ requests' = ApiRequest(sid, requests, "revert_lun_snapshot")
    /\ \E ok \in Answers(sid) :
          LET item == reversion_plan[execIdx]
              after == AfterRevert(ok, execIdx, Len(reversion_plan))
          IN  /\ revertCalls' =
                    Append(revertCalls,
                           [lun_uuid |-> item.lun_uuid,
                            snapshot_uuid |-> SnapshotUuid(item.snapshot),
                            ok |-> ok,
                            sessions |-> ActiveSessions(applTargets)])
              /\ IF after = "next"
                 THEN /\ execIdx' = ExecStep(ok, execIdx)
                      /\ UNCHANGED <<pc, pending>>
                 ELSE execIdx' = execIdx /\ Leave(after)
    /\ UNCHANGED <<exitCode, apiVars, checkVars, failedCall, catalogVars,
                   planVars, interrupted, logoutRaised, fnVars, envVars>>

\* Ctrl-C while main is inside the with block
Interrupt ==
    /\ pc \in {"login", "targets", "luns", "check", "luns_uuids", "catalog",
               "select", "confirm", "execute"}
    /\ interrupted' = TRUE
    /\ Leave("interrupt")
    /\ UNCHANGED <<exitCode, apiVars, checkVars, failedCall, catalogVars,
                   planVars, execVars, logoutRaised, fnVars, envVars,
                   requests>>

\* SynologyAPI.__exit__ -> logout, then the handlers at the end of main
Logout ==
    /\ pc = "exit_with"
    /\ pc' = "done"
    /\ IF ~Truthy(sid)
       THEN /\ exitCode' = ExitOf(pending)
            /\ UNCHANGED <<sid, logoutCalls, logoutRaised, interrupted,
                           requests>>
       ELSE \E outcome \in {"ok", "raise", "interrupt"} :
               /\ logoutCalls' = logoutCalls + 1
               /\ requests' = Append(requests, "logout")
               /\ sid' = SidAfterLogout(sid, outcome)
               /\ logoutRaised' = (outcome = "raise")
               /\ interrupted' = (interrupted \/ outcome = "interrupt")
               /\ exitCode' = IF outcome = "ok" THEN ExitOf(pending) ELSE 1
    /\ UNCHANGED <<pending, loginCalls, loginOk, checkVars, failedCall,
                   catalogVars, planVars, execVars, fnVars, envVars>>

\* a client opens a session on a target of the appliance
ClientConnect ==
    /\ pc \notin {"config", "done"}
    /\ \E t \in 1..Len(applTargets) :
          LET sessions == applTargets[t].connected_sessions
          IN  /\ Len(sessions) < MaxSessions
              /\ applTargets' =
                    [applTargets EXCEPT ![t].connected_sessions =
                        Append(sessions, Session(Len(sessions) + 1))]
    /\ UNCHANGED <<argList, argDryRun, config, pc, pending, exitCode,
                   apiVars, checkVars, failedCall, catalogVars, planVars,
                   execVars, interrupted, logoutRaised, fnVars, requests>>

\* ------------------------------------------ the functions taken on their own

\* the raw timestamp fields a snapshot record may carry
TimeFields ==
    UNION {[D -> 0..MaxTime] :
              D \in SUBSET {"time_create", "taken_time", "create_time"}}

\* what list_snapshot may answer: the i-th record has snapshot_uuid i
RawSnapshots(f) == [i \in 1..Len(f) |-> Merge([snapshot_uuid |-> i], f[i])]

InitSnap ==
    /\ argList = FALSE
    /\ argDryRun = FALSE
    /\ applTargets = <<>>
    /\ config = [exists |-> FALSE, nas |-> <<>>]
    /\ entered = 0
    /\ pc = "snap_call"
    /\ \E n \in 0..MaxList :
          \E f \in [1..n -> TimeFields] : api_snapshots = RawSnapshots(f)
    /\ Fresh

\* snapshot_mgr.get_snapshots_for_lun(lun_uuid)
CallGetSnapshotsForLun ==
    /\ pc = "snap_call"
    /\ pc' = "snap_ret"
    /\ snapshots' = GetSnapshotsForLun(api_snapshots)
    /\ UNCHANGED <<pending, exitCode, apiVars, checkVars, failedCall,
                   catalogVars, planVars, execVars, interrupted,
                   logoutRaised, api_snapshots, envVars, requests, entered,
                   returned, lastCall>>

NextSnap == CallGetSnapshotsForLun

SpecSnap == InitSnap /\ [][NextSnap]_vars

\* a session record of target t: its j-th session, with or without an ip
SessionOf(t, j, shape) ==
    IF shape = "full" THEN [initiator |-> 10 * t + j, ip |-> j]
    ELSE [initiator |-> 10 * t + j]

\* the sessions of a target: up to MaxSessions records of either shape
SessionShapes == UNION {[1..n -> {"full", "noip"}] : n \in 0..MaxSessions}

\* a target record: the name and the connected_sessions key may be absent
TargetShapes ==
    {sh \in [named : BOOLEAN, has_sessions : BOOLEAN,
             sessions : SessionShapes] :
        sh.has_sessions \/ sh.sessions = <<>>}

TargetRecord(t, sh) ==
    LET id == IF sh.named THEN [target_id |-> t, name |-> "target"]
              ELSE [target_id |-> t]
        ss == [j \in 1..Len(sh.sessions) |-> SessionOf(t, j, sh.sessions[j])]
    IN  IF sh.has_sessions THEN Merge(id, [connected_sessions |-> ss])
        ELSE id

\* what list targets with connected_sessions may answer
TargetLists ==
    UNION {{[t \in 1..n |-> TargetRecord(t, f[t])] :
                f \in [1..n -> TargetShapes]} : n \in 0..MaxTargets}

InitConn ==
    /\ argList = FALSE
    /\ argDryRun = FALSE
    /\ applTargets \in TargetLists
    /\ config = [exists |-> FALSE, nas |-> <<>>]
    /\ entered = 0
    /\ pc = "conn_call"
    /\ api_snapshots = <<>>
    /\ Fresh

\* iscsi_mgr.check_active_connections()
CallCheckActiveConnections ==
    /\ pc = "conn_call"
    /\ pc' = "conn_ret"
    /\ has_connections' = CheckActiveConnections(applTargets)[1]
    /\ connections' = CheckActiveConnections(applTargets)[2]
    /\ UNCHANGED <<pending, exitCode, apiVars, failedCall, catalogVars,
                   planVars, execVars, interrupted, logoutRaised, fnVars,
                   envVars, requests>>

NextConn == CallCheckActiveConnections

SpecConn == InitConn /\ [][NextConn]_vars

Next ==
    \/ LoadConfig
    \/ Login
    \/ GetAllTargets
    \/ GetAllLuns
    \/ CheckConnections
    \/ GetLunsWithUuids
    \/ FetchSnapshots
    \/ Select
    \/ Confirm
    \/ Revert
    \/ Interrupt
    \/ Logout
    \/ ClientConnect

Spec == Init /\ [][Next]_vars

\* ================================================================= claims
Live == ~argList /\ ~argDryRun

\* C1: in live mode, once check_active_connections has reported
\* has_connections = true no revert call is issued, and the process ends
\* with exit code 1.
C1_GateHalts ==
    (Live /\ has_connections) =>
        /\ revertCalls = <<>>
        /\ pc \in {"exit_with", "done"}
        /\ pc = "exit_with" => pending = "exit1"
        /\ pc = "done" => exitCode = 1

C1_Witness == Live /\ has_connections /\ pc = "done" /\ exitCode = 1

\* C2: with --list or --dry-run no revert call is issued, whatever the
\* connection check returned, whatever is selected and answered.
C2_NoRevertInOverride == (argList \/ argDryRun) => revertCalls = <<>>

C2_Witness ==
    /\ argDryRun /\ ~argList
    /\ has_connections
    /\ Len(reversion_plan) >= 2
    /\ pc = "done"
    /\ exitCode = 0

\* C3: in live mode no client session is active on the appliance at the
\* moment a revert call is issued.
C3_NoSessionAtRevert ==
    Live => \A i \in 1..Len(revertCalls) : revertCalls[i].sessions = 0

\* a live execution that ran to its end without Ctrl-C
Executed == pc = "done" /\ confirmed /\ ~interrupted

LunUuids(calls) == [i \in 1..Len(calls) |-> calls[i].lun_uuid]

\* C4 as stated: whatever subset of the revert calls fails, every plan item
\* gets its revert call and the run finishes with exit code 0.
C4_AsStated ==
    Executed =>
        /\ LunUuids(revertCalls) = LunUuids(reversion_plan)
        /\ exitCode = 0

\* C4 amended: whatever subset of the revert calls fails, every plan item
\* gets its revert call; the run finishes with exit code 0 unless the logout
\* request at the end of the with block raises, and then with exit code 1.
C4_Isolation ==
    /\ \A i \in 1..Len(revertCalls) :
          revertCalls[i].lun_uuid = reversion_plan[i].lun_uuid
    /\ (pc = "execute" /\ revertCalls # <<>>) =>
          Len(revertCalls) = execIdx - 1
    /\ Executed =>
          /\ LunUuids(revertCalls) = LunUuids(reversion_plan)
          /\ exitCode = IF logoutRaised THEN 1 ELSE 0

C4_Witness ==
    /\ Executed
    /\ Len(reversion_plan) = 2
    /\ ~revertCalls[1].ok
    /\ revertCalls[2].ok
    /\ exitCode = 0

\* the LUNs of list whose uuid is in S, in the order of list
Restrict(list, S) ==
    LET keep(lun) == lun.uuid \in S IN SelectSeq(list, keep)

\* C5: the revert calls of a live execution are issued in the order of the
\* plan, which is the order of the LUNs passed to get_all_lun_snapshots
\* restricted to the LUNs for which a snapshot was selected.
C5_LunOrder ==
    Executed =>
        /\ LunUuids(revertCalls) = LunUuids(reversion_plan)
        /\ LunUuids(reversion_plan) =
              [i \in 1..Len(reversion_plan) |->
                  Restrict(luns, {reversion_plan[j].lun_uuid :
                                     j \in 1..Len(reversion_plan)})[i].uuid]

HasEntry(catalog, uuid) ==
    \E i \in 1..Len(catalog) : catalog[i].value.uuid = uuid

\* C6: once get_all_lun_snapshots has gone through its LUNs, a LUN whose
\* fetch returned a non-empty list has an entry and a LUN whose fetch raised
\* has none, and unless the run is in list mode it has gone on to selection.
C6_PartialFailure ==
    (luns # <<>> /\ Len(fetchLog) = Len(luns)) =>
        \A x, y \in 1..Len(fetchLog) :
            (fetchLog[x].outcome = "error" /\ fetchLog[y].outcome = "ok") =>
                /\ HasEntry(all_snapshots, fetchLog[y].uuid)
                /\ ~HasEntry(all_snapshots, fetchLog[x].uuid)
                /\ ~argList => selIdx >= 1

\* a snapshot record with a usable timestamp: one of the three raw fields
\* is present and not zero
Usable(snapshot) ==
    \E k \in {"time_create", "taken_time", "create_time"} :
        k \in DOMAIN snapshot /\ snapshot[k] # 0

\* C7: get_snapshots_for_lun returns a permutation of the API's answer whose
\* sort keys are non-increasing, in which the snapshots without a usable
\* timestamp come after all those that have one, and in which snapshots of
\* equal sort key keep their order in the API's answer.
C7_SortedStable ==
    pc = "snap_ret" =>
        LET n == Len(api_snapshots)
            key(i) == snapshots[i].sort_time
            pos(i) == snapshots[i].snapshot_uuid
        IN  /\ Len(snapshots) = n
            /\ {pos(i) : i \in 1..n} = 1..n
            /\ \A i \in 1..n :
                  \A k \in DOMAIN api_snapshots[pos(i)] :
                      snapshots[i][k] = api_snapshots[pos(i)][k]
            /\ \A i, j \in 1..n : i < j => key(i) >= key(j)
            /\ \A i, j \in 1..n :
                  (Usable(snapshots[i]) /\ ~Usable(snapshots[j])) => i < j
            /\ \A i, j \in 1..n :
                  (i < j /\ key(i) = key(j)) => pos(i) < pos(j)

C7_Witness ==
    /\ pc = "snap_ret"
    /\ Len(snapshots) = 2
    /\ snapshots[1].snapshot_uuid = 2
    /\ Usable(snapshots[1])
    /\ ~Usable(snapshots[2])
    /\ "time_create" \in DOMAIN snapshots[2]

SessionsOf(target) == Get(target, "connected_sessions", <<>>)

\* the number of sessions of the targets before target t
Offset(targets, t) ==
    SeqSum([u \in 1..(t - 1) |-> Len(SessionsOf(targets[u]))])

\* C8: check_active_connections returns has_connections = true exactly when
\* some target has a non-empty session list; the sessions returned are all
\* the targets' sessions, in target order, each tagged with the id and name
\* of its target; when every session list is empty it returns (false, []).
C8_Connections ==
    pc = "conn_ret" =>
        LET n == Len(applTargets)
        IN  /\ has_connections =
                  (\E t \in 1..n : SessionsOf(applTargets[t]) # <<>>)
            /\ Len(connections) =
                  SeqSum([t \in 1..n |-> Len(SessionsOf(applTargets[t]))])
            /\ \A t \in 1..n :
                  \A j \in 1..Len(SessionsOf(applTargets[t])) :
                      LET c == connections[Offset(applTargets, t) + j]
                      IN  /\ c.target_id = applTargets[t].target_id
                          /\ c.target_name =
                                IF "name" \in DOMAIN applTargets[t]
                                THEN applTargets[t].name ELSE "Unknown"
                          /\ c.initiator = SessionsOf(applTargets[t])[j].initiator
            /\ (\A t \in 1..n : SessionsOf(applTargets[t]) = <<>>) =>
                  (~has_connections /\ connections = <<>>)

C8_Witness ==
    /\ pc = "conn_ret"
    /\ Len(applTargets) = 2
    /\ \A t \in 1..2 : SessionsOf(applTargets[t]) # <<>>
    /\ has_connections
    /\ Len(connections) = 2

\* C9: when a run in which login succeeded has ended, one logout request
\* was sent and the session id is cleared; no run logs in twice.
C9_SessionReleased ==
    /\ loginCalls <= 1
    /\ logoutCalls <= 1
    /\ loginOk => loginCalls = 1
    /\ (pc = "done" /\ loginOk) => (logoutCalls = 1 /\ sid = None)
    /\ (pc \notin {"done", "exit_with"} /\ loginOk) => sid # None

C9_Witness ==
    /\ pc = "done"
    /\ loginOk
    /\ interrupted
    /\ logoutRaised
    /\ revertCalls # <<>>
    /\ Len(revertCalls) < Len(reversion_plan)
    /\ sid = None

\* C10: once a discovery call has failed, no snapshot query and no revert
\* call is issued and the run ends with exit code 1; a failed connection
\* check leaves no verdict behind on which the run goes on.
C10_FailClosed ==
    failedCall # "" =>
        /\ fetchLog = <<>>
        /\ revertCalls = <<>>
        /\ pc \in {"exit_with", "done"}
        /\ pc = "exit_with" => pending = "exception"
        /\ pc = "done" => exitCode = 1
        /\ failedCall = "check" => (~has_connections /\ luns = <<>>)

C10_Witness == failedCall = "check" /\ pc = "done" /\ exitCode = 1

\* the ways main ends without an error: what each sys.exit(0) and the normal
\* end of the with block find when they are reached
NoLunsEnd == pending = "exit0" /\ luns = <<>>

EmptyCatalogEnd ==
    pending = "exit0" /\ luns # <<>> /\ Len(fetchLog) = Len(luns)
                      /\ all_snapshots = <<>>

ListModeEnd ==
    pending = "exit0" /\ argList /\ Len(fetchLog) = Len(luns)
                      /\ all_snapshots # <<>>

EmptyPlanEnd ==
    pending = "exit0" /\ ~argList /\ all_snapshots # <<>>
                      /\ selIdx = Len(all_snapshots) /\ reversion_plan = <<>>

DeclinedEnd ==
    pending = "exit0" /\ Live /\ reversion_plan # <<>> /\ ~confirmed

DryRunEnd ==
    pending = "return" /\ argDryRun /\ ~argList /\ reversion_plan # <<>>

LiveEnd ==
    pending = "return" /\ Live /\ confirmed
                       /\ Len(revertCalls) = Len(reversion_plan)

CleanEnd ==
    \/ NoLunsEnd \/ EmptyCatalogEnd \/ ListModeEnd \/ EmptyPlanEnd
    \/ DeclinedEnd \/ DryRunEnd \/ LiveEnd

\* the ways main ends with an error
ConfigErrorEnd == pending = "" /\ ConfigError(config)

SafetyEnd == pending = "exit1" /\ Live /\ has_connections

InterruptEnd == interrupted

UnhandledEnd == pending = "exception" \/ logoutRaised

ErrorEnd == ConfigErrorEnd \/ SafetyEnd \/ InterruptEnd \/ UnhandledEnd

\* C11 as stated: the process ends with code 0 exactly when the run ends in
\* success or a clean no-op (no LUNs, empty catalog, list mode done, empty
\* plan, confirmation declined, dry run done, live execution finished), and
\* with code 1 exactly when it ends by configuration error, safety-check
\* failure, user interrupt or unhandled error.
C11_AsStated ==
    pc = "done" =>
        /\ exitCode = 0 <=> CleanEnd
        /\ exitCode = 1 <=> ErrorEnd

\* C11 amended: the process ends with code 0 exactly when the run ends in
\* success or a clean no-op and the logout request that follows neither
\* raises nor is interrupted, and with code 1 exactly when it ends by
\* configuration error, safety-check failure, user interrupt or unhandled
\* error, an error or interrupt of that logout request included.
C11_ExitCodes ==
    /\ pc # "done" => exitCode = None
    /\ pc = "done" =>
          /\ exitCode \in {0, 1}
          /\ exitCode = 0 <=> (CleanEnd /\ ~logoutRaised /\ ~interrupted)
          /\ exitCode = 1 <=> ErrorEnd
          /\ CleanEnd <=> pending \in {"exit0", "return"}

C11_Witness ==
    /\ pc = "done"
    /\ DeclinedEnd
    /\ logoutRaised
    /\ exitCode = 1

\* the configuration file is missing, or one of host, username and password
\* is missing from it or empty
BadConfig ==
    \/ ~config.exists
    \/ \E k \in {"host", "username", "password"} :
          k \notin DOMAIN config.nas \/ config.nas[k] = ""

\* C12: if the config file is missing or host, username or password is
\* missing or empty, the process exits with code 1 and no request (login,
\* discovery, snapshot query, revert, logout) is ever sent.
C12_ConfigFatal ==
    BadConfig =>
        /\ pc \in {"config", "done"}
        /\ pc = "done" => exitCode = 1
        /\ requests = <<>>
        /\ loginCalls = 0 /\ logoutCalls = 0
        /\ fetchLog = <<>> /\ revertCalls = <<>>

C12_Witness ==
    /\ config.exists
    /\ DOMAIN config.nas = {"host", "username"}
    /\ config.nas["host"] = "set" /\ config.nas["username"] = "set"
    /\ pc = "done"
    /\ exitCode = 1

\* ------------------------------------------------ select_snapshot on its own

\* a raw record as list_snapshot answers it: time_create set or absent
SelectFields == {<<>>} \cup {[time_create |-> t] : t \in 0..MaxTime}

\* what the operator may enter at the prompt: any integer around the range
SelectChoices == (0 - MaxLong - 1)..(MaxLong + 1)

\* a long answer of list_snapshot: n records, the k-th taken at time k
LongAnswer(n) == [k \in 1..n |-> [snapshot_uuid |-> k, time_create |-> k]]

InitSelect ==
    /\ argList = FALSE
    /\ argDryRun = FALSE
    /\ applTargets = <<>>
    /\ config = [exists |-> FALSE, nas |-> <<>>]
    /\ pc = "select_call"
    /\ \/ \E n \in 0..MaxList :
             \E f \in [1..n -> SelectFields] :
                api_snapshots = RawSnapshots(f)
       \/ \E n \in (MaxList + 1)..MaxLong : api_snapshots = LongAnswer(n)
    /\ entered \in SelectChoices
    /\ Fresh

\* select_snapshot(lun_name, snapshots) on a list get_snapshots_for_lun
\* returned, the operator entering `entered`
CallSelectSnapshot ==
    /\ pc = "select_call"
    /\ pc' = "select_ret"
    /\ snapshots' = GetSnapshotsForLun(api_snapshots)
    /\ returned' = SelectSnapshot(snapshots', entered)
    /\ UNCHANGED <<pending, exitCode, apiVars, checkVars, failedCall,
                   catalogVars, planVars, execVars, interrupted,
                   logoutRaised, api_snapshots, envVars, requests, entered,
                   lastCall>>

NextSelect == CallSelectSnapshot

SpecSelect == InitSelect /\ [][NextSelect]_vars

\* C13: select_snapshot returns a snapshot only when the choice is an
\* in-range index (1..number of snapshots); choice 0 and every out-of-range
\* choice, negative ones included, mean "skip this LUN": the function
\* returns None and no plan item follows.
C13_SelectionPolicy ==
    pc = "select_ret" =>
        IF entered \in 1..Len(snapshots)
        THEN returned = [kind |-> "snap", snapshot |-> snapshots[entered]]
        ELSE returned = [kind |-> "none"]

\* ---------------------------------------------- SynologyAPI under any caller

\* the methods of SynologyAPI that go through _api_request
ApiMethods ==
    {"get_iscsi_targets", "get_iscsi_luns", "get_lun_snapshots",
     "revert_lun_snapshot"}

\* how a call through _api_request ends
ApiResult(s, ok) ==
    IF ~Truthy(s) THEN "not_logged_in" ELSE IF ok THEN "ok" ELSE "error"

\* a SynologyAPI just constructed, in the hands of a caller other than main
InitApi ==
    /\ argList = FALSE
    /\ argDryRun = FALSE
    /\ applTargets = <<>>
    /\ config = [exists |-> FALSE, nas |-> <<>>]
    /\ pc = "client"
    /\ api_snapshots = <<>>
    /\ entered = 0
    /\ Fresh

clientVars ==
    <<pc, pending, exitCode, checkVars, failedCall, catalogVars, planVars,
      execVars, interrupted, logoutRaised, api_snapshots, snapshots, entered,
      returned, envVars>>

\* SynologyAPI.login: sid is assigned only when the appliance accepts
ClientLogin ==
    /\ pc = "client"
    /\ Len(requests) < MaxCalls
    /\ requests' = Append(requests, "login")
    /\ loginCalls' = loginCalls + 1
    /\ \E ok \in BOOLEAN :
          /\ sid' = IF ok THEN 1 ELSE sid
          /\ loginOk' = (loginOk \/ ok)
          /\ lastCall' = [method |-> "login", held |-> Truthy(sid),
                          sent |-> TRUE,
                          result |-> IF ok THEN "ok" ELSE "error"]
    /\ UNCHANGED <<logoutCalls, clientVars>>

\* SynologyAPI.logout
ClientLogout ==
    /\ pc = "client"
    /\ IF ~Truthy(sid)
       THEN /\ lastCall' = [method |-> "logout", held |-> FALSE,
                            sent |-> FALSE, result |-> "ok"]
            /\ UNCHANGED <<sid, logoutCalls, requests>>
       ELSE /\ Len(requests) < MaxCalls
            /\ requests' = Append(requests, "logout")
            /\ logoutCalls' = logoutCalls + 1
            /\ \E outcome \in {"ok", "raise"} :
                  /\ sid' = SidAfterLogout(sid, outcome)
                  /\ lastCall' = [method |-> "logout", held |-> TRUE,
                                  sent |-> TRUE,
                                  result |-> IF outcome = "ok" THEN "ok"
                                             ELSE "error"]
    /\ UNCHANGED <<loginCalls, loginOk, clientVars>>

\* get_iscsi_targets, get_iscsi_luns, get_lun_snapshots, revert_lun_snapshot
ClientCall ==
    /\ pc = "client"
    /\ \E method \in ApiMethods :
          /\ requests' = ApiRequest(sid, requests, method)
          /\ Len(requests') <= MaxCalls
          /\ \E ok \in Answers(sid) :
                lastCall' = [method |-> method, held |-> Truthy(sid),
                             sent |-> requests' # requests,
                             result |-> ApiResult(sid, ok)]
    /\ UNCHANGED <<apiVars, clientVars>>

NextApi == Next \/ ClientLogin \/ ClientLogout \/ ClientCall

\* main, or any other caller of SynologyAPI
SpecApi == (Init \/ InitApi) /\ [][NextApi]_vars

\* C14: every API call other than login/logout made while no session is held
\* (before a successful login, after a failed login, after logout) fails
\* with "not logged in" without sending a request; and when login fails in
\* main the run is fatal: no discovery, snapshot or revert call is attempted
\* afterwards and no logout request is sent.
C14_Authentication ==
    /\ (lastCall.method \in ApiMethods /\ ~lastCall.held) =>
          /\ lastCall.result = "not_logged_in"
          /\ ~lastCall.sent
    /\ \A i \in 1..Len(requests) :
          requests[i] \in ApiMethods =>
              \E j \in 1..(i - 1) : requests[j] = "login"
    /\ (pc # "client" /\ loginCalls > 0 /\ ~loginOk) =>
          /\ requests = <<"login">>
          /\ logoutCalls = 0
          /\ fetchLog = <<>> /\ revertCalls = <<>>
          /\ pc \in {"exit_with", "done"}
          /\ pc = "done" => exitCode = 1

C14_Witness ==
    /\ pc = "client"
    /\ requests = <<"login", "logout">>
    /\ sid = None
    /\ lastCall = [method |-> "revert_lun_snapshot", held |-> FALSE,
                   sent |-> FALSE, result |-> "not_logged_in"]

\* the position in requests of the request check_active_connections sends:
\* main sends login, get_iscsi_targets and get_iscsi_luns before it
CheckRequest == 4

\* C15: in live mode with an active session reported, the run halts before
\* any get_lun_snapshots request is sent; in every run no get_lun_snapshots
\* request is sent before the connection check has returned; in dry-run mode
\* with an active session reported the run is not halted by the gate and goes
\* on to the catalog and the selection.
C15_GateBeforeCatalog ==
    /\ (Live /\ has_connections) =>
          /\ \A i \in 1..Len(requests) : requests[i] # "get_lun_snapshots"
          /\ fetchLog = <<>>
          /\ pc \in {"exit_with", "done"}
    /\ \A i \in 1..Len(requests) :
          requests[i] = "get_lun_snapshots" =>
              /\ i > CheckRequest
              /\ requests[CheckRequest] = "get_iscsi_targets"
              /\ failedCall # "check"
              /\ pc \notin {"check", "luns", "targets", "login", "config"}
    /\ (argDryRun /\ has_connections) =>
          /\ pending # "exit1"
          /\ (pc \in {"exit_with", "done"} /\ pending = "exit0" /\ ~argList
                /\ all_snapshots # <<>>) =>
                    selIdx = Len(all_snapshots)

C15_Witness ==
    /\ argDryRun /\ ~argList
    /\ has_connections
    /\ pc = "select"
    /\ Len(fetchLog) >= 2
    /\ requests[CheckRequest + 2] = "get_lun_snapshots"

\* how many requests of the run are a call of method
Count(method) == Cardinality({i \in 1..Len(requests) : requests[i] = method})

\* the requests that change nothing on the appliance's LUNs
ReadOnly ==
    {"login", "logout", "get_iscsi_targets", "get_iscsi_luns",
     "get_lun_snapshots"}

\* C16: in live execution each plan item gets exactly one revert call,
\* whether that call succeeds or fails, so a run that reaches the end of
\* execution has issued as many revert calls as there are plan items, and no
\* other mutating call is issued.
C16_NoRetryNoRollback ==
    /\ Len(revertCalls) <= Len(reversion_plan)
    /\ \A i \in 1..Len(revertCalls) :
          /\ revertCalls[i].lun_uuid = reversion_plan[i].lun_uuid
          /\ revertCalls[i].snapshot_uuid =
                SnapshotUuid(reversion_plan[i].snapshot)
    /\ Count("revert_lun_snapshot") = Len(revertCalls)
    /\ \A i \in 1..Len(requests) :
          requests[i] \in ReadOnly \cup {"revert_lun_snapshot"}
    /\ (confirmed /\ pending = "return") =>
          Len(revertCalls) = Len(reversion_plan)

C16_Witness ==
    /\ pc = "done"
    /\ confirmed /\ pending = "return"
    /\ Len(reversion_plan) = 2
    /\ ~revertCalls[1].ok /\ ~revertCalls[2].ok
    /\ Count("revert_lun_snapshot") = 2

\* C17 as stated: in live mode a revert call is issued only after the
\* operator has answered yes to the confirmation prompt; if the operator
\* declines, zero revert calls are issued and the process exits with code 0;
\* an empty plan ends the run with exit code 0 before any confirmation is
\* asked.
C17_AsStated ==
    /\ revertCalls # <<>> => (Live /\ confirmed)
    /\ pc \in {"confirm", "execute"} => reversion_plan # <<>>
    /\ DeclinedEnd =>
          /\ revertCalls = <<>>
          /\ pc = "done" => exitCode = 0
    /\ EmptyPlanEnd =>
          /\ ~confirmed /\ revertCalls = <<>>
          /\ pc = "done" => exitCode = 0

\* C17 amended: as above, but the exit code after a declined confirmation
\* or an empty plan is 0 only when the logout request that follows neither
\* raises nor is interrupted, and 1 otherwise.
C17_ConfirmGate ==
    /\ revertCalls # <<>> => (Live /\ confirmed)
    /\ pc \in {"confirm", "execute"} => reversion_plan # <<>>
    /\ DeclinedEnd =>
          /\ revertCalls = <<>>
          /\ pc = "done" =>
                exitCode = IF logoutRaised \/ interrupted THEN 1 ELSE 0
    /\ EmptyPlanEnd =>
          /\ ~confirmed /\ revertCalls = <<>>
          /\ pc = "done" =>
                exitCode = IF logoutRaised \/ interrupted THEN 1 ELSE 0

C17_Witness ==
    /\ pc = "done"
    /\ DeclinedEnd
    /\ Len(reversion_plan) = 2
    /\ revertCalls = <<>>
    /\ exitCode = 0

\* the raw record a returned snapshot was made from
RawOf(snapshot) == api_snapshots[snapshot.snapshot_uuid]

\* the first of the three fields the raw record carries, None if it has none
FirstPresent(raw) ==
    IF "time_create" \in DOMAIN raw THEN raw["time_create"]
    ELSE IF "taken_time" \in DOMAIN raw THEN raw["taken_time"]
    ELSE IF "create_time" \in DOMAIN raw THEN raw["create_time"]
    ELSE None

\* the first of the three fields that the raw record carries with a value
\* other than 0, None if there is none
FirstNonZero(raw) ==
    LET set(k) == k \in DOMAIN raw /\ raw[k] # 0
    IN  IF set("time_create") THEN raw["time_create"]
        ELSE IF set("taken_time") THEN raw["taken_time"]
        ELSE IF set("create_time") THEN raw["create_time"]
        ELSE None

Fetched == {i \in 1..Len(fetchLog) : fetchLog[i].outcome = "ok"}

\* C19: get_all_lun_snapshots returns one entry for each LUN whose snapshot
\* fetch succeeded with a non-empty list, LUNs that share a display name or
\* have no name included, and no entry for a LUN whose list is empty; the
\* number of catalog entries equals the number of such LUNs.
C19_CatalogComplete ==
    Len(fetchLog) = Len(luns) =>
        /\ \A i \in 1..Len(fetchLog) :
              HasEntry(all_snapshots, fetchLog[i].uuid) <=> i \in Fetched
        /\ Len(all_snapshots) = Cardinality(Fetched)

\* snapshot_uuid was returned by the snapshot query for lun_uuid in this run
Queried(lun_uuid, snapshot_uuid) ==
    \E j \in 1..Len(fetchLog) :
        /\ fetchLog[j].uuid = lun_uuid
        /\ snapshot_uuid \in fetchLog[j].snapshot_uuids

\* C20: every revert call issued pairs a LUN UUID with a snapshot that the
\* snapshot query returned for that same LUN UUID in this run, and at most
\* one plan item exists per catalog entry, for every LUN list, LUNs with
\* equal display names included.
C20_PlanConsistent ==
    /\ \A i \in 1..Len(revertCalls) :
          Queried(revertCalls[i].lun_uuid, revertCalls[i].snapshot_uuid)
    /\ \A i \in 1..Len(reversion_plan) :
          Queried(reversion_plan[i].lun_uuid,
                  SnapshotUuid(reversion_plan[i].snapshot))
    /\ \A k \in 1..Len(all_snapshots) :
          Cardinality({i \in 1..Len(reversion_plan) :
                          reversion_plan[i].lun_name = all_snapshots[k].key})
              <= 1
    /\ Len(reversion_plan) <= Len(all_snapshots)

C20_Witness ==
    /\ Len(luns) = 2
    /\ luns[1].name = luns[2].name
    /\ Len(fetchLog) = 2
    /\ \A j \in 1..2 : fetchLog[j].outcome = "ok"
    /\ revertCalls # <<>>
    /\ revertCalls[1].lun_uuid = luns[2].uuid
    /\ revertCalls[1].snapshot_uuid \in fetchLog[2].snapshot_uuids

\* C21: for every snapshot list, lists longer than 7 included, a snapshot
\* returned by select_snapshot is one of the snapshots displayed to the
\* operator, that is one of the 7 most recent.
C21_ShownOnly ==
    (pc = "select_ret" /\ returned.kind = "snap") =>
        \E r \in 1..Len(DisplaySnapshots(snapshots)) :
            /\ snapshots[DisplaySnapshots(snapshots)[r].idx] =
                  returned.snapshot
            /\ DisplaySnapshots(snapshots)[r].snapshot_id =
                  SnapshotId(returned.snapshot)

====
